---- MODULE Spec2Model ----
(***************************************************************************)
(* taskwiki/cache.py: the stores (NoNoneStore and its subclasses) and the  *)
(* TaskCache that owns them, as a state machine.                           *)
(*                                                                         *)
(* The module is Python 2 (dict.iteritems).  Names are resolved the way    *)
(* Python resolves them: a bare name that is neither a local, a module     *)
(* global nor a builtin raises NameError when the statement is executed,   *)
(* and an attribute that no class or instance defines raises               *)
(* AttributeError.  An exception ends the handler at that statement; what  *)
(* the handler assigned before it stays assigned.                          *)
(***************************************************************************)
EXTENDS Integers, Sequences, FiniteSets, TLC

\* ------------------------------------------------------------------ bounds
MaxLen == 3       \* most lines a document holds
MaxW == 3         \* TaskWrapper (VimwikiTask) objects in existence
MaxDeps == 2      \* most entries of one wrapper's add_dependencies
MaxUuid == 3      \* distinct uuids a line can reference
MaxExtra == 1     \* extra warriors configured besides 'default'

\* ------------------------------------------------------------- the values
\* Python's None.  Wrappers, tasks and viewports are positive integers.
None == 0

\* VimwikiTask objects: each has a mutable 'line_number' and a set
\* add_dependencies of other VimwikiTask objects.
Wrappers == 1..MaxW

\* WarriorStore.warriors: key 0 is 'default', 1..MaxExtra are the keys of
\* taskwiki_extra_warriors.
Warriors == 0..MaxExtra

\* The source group of a task line: 0 is no group (-> 'default'), a key of
\* Warriors, or MaxExtra+1, a key that is not configured.
Sources == 0..(MaxExtra + 1)

Uuids == 1..MaxUuid

\* A document line, by what the regular expressions of regexp.py find in it:
\* GENERIC_TASK matches "task" lines only, with groups source and uuid
\* (uuid None = 0).
Note == [kind |-> "note", source |-> 0, uuid |-> None]
View == [kind |-> "view", source |-> 0, uuid |-> None]
TaskLine(s, u) == [kind |-> "task", source |-> s, uuid |-> u]
TaskLines == {TaskLine(s, u) : s \in Sources, u \in {None} \cup Uuids}
Lines == {Note, View} \cup TaskLines

\* All documents of at most n lines over an alphabet.
Docs(alphabet, n) == UNION {[1..k -> alphabet] : k \in 0..n}

VARIABLES
  buffer,               \* vim.current.buffer, 0-indexed line i is buffer[i+1]
  task_store,           \* TaskCache.task.store      ShortUUID -> Task
  vwtask_store,         \* TaskCache.vwtask.store    position -> VimwikiTask
  viewport_store,       \* TaskCache.viewport.store  position -> ViewPort
  line_number,          \* VimwikiTask['line_number'], per wrapper
  add_dependencies,     \* VimwikiTask.add_dependencies, per wrapper
  buffer_has_authority, \* TaskCache.buffer_has_authority
  tw_tasks,             \* the uuids each TaskWarrior holds (external data)
  pc,                   \* "idle", or the handler that is mid-way
  old_authority,        \* load_vwtasks: its local old_authority
  i,                    \* load_vwtasks: its loop index
  iterated_cache,       \* vimwikitask_dependency_order: its local dict
  todo,                 \* ... keys of the current for-pass not yet visited
  removed,              \* ... number of keys the current pass deleted
  yielded,              \* ... the wrappers yielded so far, in order
  op,                   \* the last handler called and its positions
  err,                  \* how it ended: "ok", "running", or the exception
  lookups,              \* positions VwtaskStore.__getitem__ was called with
  calls,                \* load_tasks: queries executed, per warrior
  selected,             \* load_tasks: the tasks each query returned
  edited                \* whether insert_line, remove_line or swap_lines
                        \* has been called since construction

vars == <<buffer, task_store, vwtask_store, viewport_store, line_number,
          add_dependencies, buffer_has_authority, tw_tasks, pc, old_authority,
          i, iterated_cache, todo, removed, yielded, op, err, lookups, calls,
          selected, edited>>

\* ------------------------------------------------------------ the helpers
EmptyStore == [k \in {} |-> None]

Op(name, a, b) == [name |-> name, a |-> a, b |-> b]

\* dict.get(key): the value, or None.
DictGet(d, key) == IF key \in DOMAIN d THEN d[key] ELSE None

\* d[key] = value
DictSet(d, key, value) ==
  [k \in DOMAIN d \cup {key} |-> IF k = key THEN value ELSE d[k]]

\* del d[key]
DictDel(d, key) == [k \in DOMAIN d \ {key} |-> d[k]]

\* The line at 0-indexed position p.
LineAt(buf, p) == buf[p + 1]

InRange(buf, p) == p >= 0 /\ p < Len(buf)

\* The locals of the generator vimwikitask_dependency_order exist while
\* save_tasks runs; any other handler starts without them.
NoGenerator ==
  /\ iterated_cache' = EmptyStore
  /\ todo' = {}
  /\ removed' = 0
  /\ yielded' = <<>>

\* ------------------------------------------------------------ NoNoneStore
\* NoNoneStore.__getitem__(key), lines 65-75.  The result is how the call
\* ended ("ok" or the exception), the store dict afterwards and the item
\* returned.
\*   66  item = self.store.get(key)
\*   68  if item is None:
\*   69      item = get_method(self, key)    get_method is looked up as a bare
\*                                           name: no local, global or builtin
\*                                           has it, so NameError
\*   72  if vimwikitask is not None:         same for vimwikitask: NameError
\* Both ways end in NameError before line 73 stores anything.
NoNoneStore_getitem(store, key) ==
  LET item == DictGet(store, key) IN
  IF item = None
    THEN [err |-> "NameError", store |-> store, item |-> None]
    ELSE [err |-> "NameError", store |-> store, item |-> None]

\* `key in self`, line 80.  NoNoneStore defines neither __contains__ nor
\* __iter__, so Python iterates the object through __getitem__(0),
\* __getitem__(1), ... until IndexError, comparing each item with key.  Any
\* other exception of __getitem__ leaves the `in` expression.
NoNoneStore_contains(store, key) ==
  LET first == NoNoneStore_getitem(store, 0) IN
  IF first.err # "ok"
    THEN [err |-> first.err, store |-> first.store, found |-> FALSE]
    ELSE \* __getitem__(0) returned an item: it is compared with key
         [err |-> "ok", store |-> first.store, found |-> first.item = key]

\* NoNoneStore.__setitem__(key, value), lines 77-85.
\*   79  if value is None:
\*   80      if key in self:
\*   81          del self[key]      no __delitem__ on the class: TypeError
\*   82      return
\*   85  self.store[key] = value
NoNoneStore_setitem(store, key, value) ==
  IF value = None
    THEN LET c == NoNoneStore_contains(store, key) IN
         IF c.err # "ok" THEN [err |-> c.err, store |-> c.store]
         ELSE IF c.found THEN [err |-> "TypeError", store |-> c.store]
         ELSE [err |-> "ok", store |-> c.store]
    ELSE [err |-> "ok", store |-> DictSet(store, key, value)]

\* --------------------------------------- vimwikitask_dependency_order
\* Ready with any() where the code has all().
Ready_any(cache, task) ==
  \E t \in add_dependencies[task] : line_number[t] \notin DOMAIN cache

\* Lines 143-144: all([t['line_number'] not in iterated_cache.keys()
\*                     for t in task.add_dependencies])
Ready(cache, task) ==
  \A t \in add_dependencies[task] : line_number[t] \notin DOMAIN cache

\* save_tasks(), lines 182-184, entering the generator of lines 133-146:
\* the dict comprehension of lines 135-138 and the first test of the while
\* of line 140.  The generator only reads the cache; it is modelled step by
\* step because it need not end.
SaveBegin ==
  /\ pc = "idle"
  /\ LET cache == [k \in {k \in DOMAIN vwtask_store : vwtask_store[k] # None}
                     |-> vwtask_store[k]] IN
     /\ iterated_cache' = cache
     /\ todo' = DOMAIN cache
     /\ pc' = IF DOMAIN cache = {} THEN "idle" ELSE "save_tasks"
     /\ err' = IF DOMAIN cache = {} THEN "ok" ELSE "running"
  /\ removed' = 0
  /\ yielded' = <<>>
  /\ op' = Op("save_tasks", 0, 0)
  /\ lookups' = {}
  /\ UNCHANGED <<buffer, task_store, vwtask_store, viewport_store, line_number,
                 add_dependencies, buffer_has_authority, tw_tasks,
                 old_authority, i, calls, selected, edited>>

\* One iteration of the for of line 141 over list(iterated_cache.keys()).
\* The order of a dict's keys is the interpreter's: any key of the pass
\* that has not been visited may come next.  A yielded task is saved by
\* save_tasks (task.save_to_tw(), line 184) before the generator resumes.
SaveStep ==
  /\ pc = "save_tasks"
  /\ todo # {}
  /\ \E key \in todo :
       LET task == iterated_cache[key] IN
       /\ todo' = todo \ {key}
       /\ IF Ready(iterated_cache, task)
            THEN /\ iterated_cache' = DictDel(iterated_cache, key)
                 /\ yielded' = Append(yielded, task)
                 /\ removed' = removed + 1
            ELSE UNCHANGED <<iterated_cache, yielded, removed>>
  /\ UNCHANGED <<buffer, task_store, vwtask_store, viewport_store, line_number,
                 add_dependencies, buffer_has_authority, tw_tasks, pc,
                 old_authority, i, op, err, lookups, calls, selected,
                 edited>>

\* SaveWhile with an `if` where the code has `while`: the generator ends
\* after its first pass.
SaveWhile_one_pass ==
  /\ pc = "save_tasks"
  /\ todo = {}
  /\ pc' = "idle"
  /\ err' = "ok"
  /\ UNCHANGED <<buffer, task_store, vwtask_store, viewport_store, line_number,
                 add_dependencies, buffer_has_authority, tw_tasks,
                 old_authority, i, iterated_cache, todo, removed, yielded, op,
                 lookups, calls, selected, edited>>

\* The for-pass is over: the while of line 140 tests iterated_cache.keys()
\* again and either ends the generator or starts the next pass.  Nothing
\* else is tested.
SaveWhile ==
  /\ pc = "save_tasks"
  /\ todo = {}
  /\ IF DOMAIN iterated_cache = {}
       THEN /\ pc' = "idle"
            /\ err' = "ok"
            /\ UNCHANGED <<todo, removed>>
       ELSE /\ todo' = DOMAIN iterated_cache
            /\ removed' = 0
            /\ UNCHANGED <<pc, err>>
  /\ UNCHANGED <<buffer, task_store, vwtask_store, viewport_store, line_number,
                 add_dependencies, buffer_has_authority, tw_tasks,
                 old_authority, i, iterated_cache, yielded, op, lookups,
                 calls, selected, edited>>

\* ------------------------------------------- insert, remove and swap
\* list.insert: the document with line put at 0-indexed position.
BufferInsert(buf, line, position) ==
  [k \in 1..(Len(buf) + 1) |->
     IF k <= position THEN buf[k]
     ELSE IF k = position + 1 THEN line
     ELSE buf[k - 1]]

\* del buffer[position]
BufferDelete(buf, position) ==
  [k \in 1..(Len(buf) - 1) |-> IF k <= position THEN buf[k] ELSE buf[k + 1]]

\* BufferSwap writing at vim's 1-based line numbers.
BufferSwap_one_based(buf, position1, position2) ==
  [k \in 1..Len(buf) |->
     IF k = position2 + 2 THEN buf[position1 + 1]
     ELSE IF k = position1 + 2 THEN buf[position2 + 1]
     ELSE buf[k]]

\* Lines 282-284: the lines at position1 and position2 exchanged.
BufferSwap(buf, position1, position2) ==
  [k \in 1..Len(buf) |->
     IF k = position2 + 1 THEN buf[position1 + 1]
     ELSE IF k = position1 + 1 THEN buf[position2 + 1]
     ELSE buf[k]]

\* Lines 254-256 with self.vimwikitask_cache read as the position cache:
\* the line numbers shifted, the keys not rebuilt.
InsertLine_shift_no_rebuild(line, position) ==
  /\ pc = "idle"
  /\ Len(buffer) < MaxLen
  /\ position \in 0..Len(buffer)
  /\ buffer' = BufferInsert(buffer, line, position)
  /\ line_number' =
       [w \in Wrappers |->
          IF w \in {vwtask_store[k] : k \in DOMAIN vwtask_store}
             /\ line_number[w] >= position
            THEN line_number[w] + 1 ELSE line_number[w]]
  /\ err' = "ok"
  /\ op' = Op("insert_line", position, 0)
  /\ lookups' = {}
  /\ NoGenerator
  /\ edited' = TRUE
  /\ UNCHANGED <<task_store, vwtask_store, viewport_store, add_dependencies,
                 buffer_has_authority, tw_tasks, pc, old_authority, i, calls,
                 selected>>

\* rebuild_vimwikitask_cache(), lines 241-247.
\*   242  new_cache = dict()
\*   244  for vimwikitask in self.vimwikitask_cache.values():
\*        TaskCache has no attribute vimwikitask_cache (__init__ sets task,
\*        vwtask, viewport, line, warriors, buffer_has_authority and the
\*        class defines no __getattr__): AttributeError.  Line 247 is not
\*        reached: the store is not replaced.
RebuildVimwikitaskCache ==
  /\ pc = "idle"
  /\ err' = "AttributeError"
  /\ op' = Op("rebuild_vimwikitask_cache", 0, 0)
  /\ lookups' = {}
  /\ NoGenerator
  /\ UNCHANGED <<buffer, task_store, vwtask_store, viewport_store, line_number,
                 add_dependencies, buffer_has_authority, tw_tasks, pc,
                 old_authority, i, calls, selected, edited>>

\* vim's resolution of a line index n of the document, for buffer[n] and
\* del buffer[n]: the 0-indexed line, or -1 for IndexError ("line index out
\* of range").  An index at or beyond the line count is an error.  A
\* negative index is an error in the vim builds that do not count from the
\* end (wraps FALSE) and the line n + len(buffer) in those that do.
BufferIndex(buf, n, wraps) ==
  IF n >= 0 THEN (IF n < Len(buf) THEN n ELSE -1)
  ELSE IF wraps /\ n + Len(buf) >= 0 THEN n + Len(buf)
  ELSE -1

\* insert_line(line, position), lines 249-259.
\*   251  vim.current.buffer.append(line, position)   the line is inserted
\*        after `position` lines; vim accepts 0..len(buffer) and raises
\*        IndexError ("line number out of range") for any other number
\*   254  for vimwikitask in self.vimwikitask_cache.values():
\*        AttributeError, as in rebuild_vimwikitask_cache.  Lines 255-259
\*        are not reached: no line_number changes and no key is rebuilt.
InsertLine(line, position) ==
  /\ pc = "idle"
  /\ IF position \in 0..Len(buffer)
       THEN /\ Len(buffer) < MaxLen
            /\ buffer' = BufferInsert(buffer, line, position)
            /\ err' = "AttributeError"
       ELSE /\ err' = "IndexError"
            /\ UNCHANGED buffer
  /\ op' = Op("insert_line", position, 0)
  /\ lookups' = {}
  /\ NoGenerator
  /\ edited' = TRUE
  /\ UNCHANGED <<task_store, vwtask_store, viewport_store, line_number,
                 add_dependencies, buffer_has_authority, tw_tasks, pc,
                 old_authority, i, calls, selected>>

\* remove_line(position), lines 261-274.
\*   263  del vim.current.buffer[position]     the line vim resolves the
\*        index to is deleted, or IndexError
\*   266  del self.vimwikitask_cache[position] AttributeError, as above
RemoveLine(position) ==
  /\ pc = "idle"
  /\ \E wraps \in BOOLEAN :
       LET n == BufferIndex(buffer, position, wraps) IN
       IF n = -1
         THEN /\ err' = "IndexError"
              /\ UNCHANGED buffer
         ELSE /\ buffer' = BufferDelete(buffer, n)
              /\ err' = "AttributeError"
  /\ op' = Op("remove_line", position, 0)
  /\ lookups' = {}
  /\ NoGenerator
  /\ edited' = TRUE
  /\ UNCHANGED <<task_store, vwtask_store, viewport_store, line_number,
                 add_dependencies, buffer_has_authority, tw_tasks, pc,
                 old_authority, i, calls, selected>>

\* swap_lines(position1, position2), lines 276-295.
\*   277-279  a position at or beyond the line count: ValueError.  A
\*            negative position passes the test.
\*   282      temp = buffer[position2]                  IndexError, or read
\*   283      buffer[position2] = buffer[position1]     the right-hand side
\*            is read first: IndexError before anything is written
\*   284      buffer[position1] = temp                  the lines exchanged
\*   286      temp = self.vwtask[position2]             __getitem__
\*   287      self.vwtask[position2] = self.vwtask.get(position1)
\*            NoNoneStore has no attribute get: AttributeError
\* Line 286 ends the call when __getitem__ raises; line 287 would.
SwapLines(position1, position2) ==
  /\ pc = "idle"
  /\ op' = Op("swap_lines", position1, position2)
  /\ IF position1 >= Len(buffer) \/ position2 >= Len(buffer)
       THEN /\ err' = "ValueError"
            /\ lookups' = {}
            /\ UNCHANGED <<buffer, vwtask_store>>
       ELSE \E wraps \in BOOLEAN :
            LET n1 == BufferIndex(buffer, position1, wraps)
                n2 == BufferIndex(buffer, position2, wraps)
                temp == NoNoneStore_getitem(vwtask_store, position2) IN
            IF n1 = -1 \/ n2 = -1
              THEN /\ err' = "IndexError"
                   /\ lookups' = {}
                   /\ UNCHANGED <<buffer, vwtask_store>>
              ELSE /\ buffer' = BufferSwap(buffer, n1, n2)
                   /\ lookups' = {position2}
                   /\ vwtask_store' = temp.store
                   /\ err' = IF temp.err # "ok" THEN temp.err
                             ELSE "AttributeError"
  /\ NoGenerator
  /\ edited' = TRUE
  /\ UNCHANGED <<task_store, viewport_store, line_number, add_dependencies,
                 buffer_has_authority, tw_tasks, pc, old_authority, i, calls,
                 selected>>

\* ------------------------------------------------------------- reset
\* reset(), lines 148-152 (the line store holds no state of interest).
Reset ==
  /\ pc = "idle"
  /\ task_store' = EmptyStore
  /\ vwtask_store' = EmptyStore
  /\ viewport_store' = EmptyStore
  /\ op' = Op("reset", 0, 0)
  /\ err' = "ok"
  /\ lookups' = {}
  /\ NoGenerator
  /\ UNCHANGED <<buffer, line_number, add_dependencies, buffer_has_authority,
                 tw_tasks, old_authority, i, pc, calls, selected, edited>>

\* ------------------------------------------------------ load_vwtasks
Flag(b) == IF b THEN 1 ELSE 0

\* load_vwtasks(buffer_has_authority), lines 157-158: the flag is saved in
\* the local old_authority and set to the argument.
LoadVwtasksBegin(authority) ==
  /\ pc = "idle"
  /\ old_authority' = buffer_has_authority
  /\ buffer_has_authority' = authority
  /\ i' = 0
  /\ pc' = "load_vwtasks"
  /\ op' = Op("load_vwtasks", Flag(authority), Flag(buffer_has_authority))
  /\ err' = "running"
  /\ lookups' = {}
  /\ NoGenerator
  /\ UNCHANGED <<buffer, task_store, vwtask_store, viewport_store,
                 line_number, add_dependencies, tw_tasks, calls, selected,
                 edited>>

\* Lines 160-161: self.vwtask[i] for the next i of range(len(buffer)).  An
\* exception of __getitem__ leaves load_vwtasks there: the method has no
\* try/finally, line 164 is not executed.
LoadVwtasksLookup ==
  /\ pc = "load_vwtasks"
  /\ i < Len(buffer)
  /\ LET r == NoNoneStore_getitem(vwtask_store, i) IN
     /\ vwtask_store' = r.store
     /\ lookups' = lookups \cup {i}
     /\ IF r.err = "ok"
          THEN /\ i' = i + 1
               /\ UNCHANGED <<pc, err>>
          ELSE /\ pc' = "idle"
               /\ err' = r.err
               /\ UNCHANGED i
  /\ UNCHANGED <<buffer, task_store, viewport_store, line_number,
                 add_dependencies, buffer_has_authority, tw_tasks,
                 old_authority, iterated_cache, todo, removed, yielded, op,
                 calls, selected, edited>>

\* Line 164, after the loop has run through range(len(buffer)).
LoadVwtasksEnd ==
  /\ pc = "load_vwtasks"
  /\ i >= Len(buffer)
  /\ buffer_has_authority' = old_authority
  /\ pc' = "idle"
  /\ err' = "ok"
  /\ UNCHANGED <<buffer, task_store, vwtask_store, viewport_store,
                 line_number, add_dependencies, tw_tasks, old_authority, i,
                 iterated_cache, todo, removed, yielded, op, lookups, calls,
                 selected, edited>>

\* ---------------------------------------------------- load_viewports
\* The ViewPort that viewport.ViewPort.from_line(i, cache) builds for line
\* i, None when the line defines no viewport.
ViewPort_from_line(buf, n) ==
  IF LineAt(buf, n).kind = "view" THEN n + 1 ELSE None

\* load_viewports(), lines 166-176: every port found is stored under its
\* line number (a port is not None, so line 85 stores it).
LoadViewports ==
  /\ pc = "idle"
  /\ viewport_store' =
       [k \in DOMAIN viewport_store \cup
                {n \in 0..(Len(buffer) - 1) : ViewPort_from_line(buffer, n) # None}
          |-> IF InRange(buffer, k) /\ ViewPort_from_line(buffer, k) # None
                THEN NoNoneStore_setitem(viewport_store, k,
                                         ViewPort_from_line(buffer, k)).store[k]
                ELSE viewport_store[k]]
  /\ op' = Op("load_viewports", 0, 0)
  /\ err' = "ok"
  /\ lookups' = {}
  /\ NoGenerator
  /\ UNCHANGED <<buffer, task_store, vwtask_store, line_number,
                 add_dependencies, buffer_has_authority, tw_tasks,
                 old_authority, i, pc, calls, selected, edited>>

\* -------------------------------------------------------- load_tasks
\* WarriorStore.__getitem__, lines 40-46: the warrior of a source group,
\* None standing for the TaskWikiException of an unknown key.  Line 195
\* passes  match.group('source') or 'default'.
Resolve(source) ==
  IF source \in Warriors THEN [err |-> "ok", tw |-> source]
  ELSE [err |-> "TaskWikiException", tw |-> 0]

\* Lines 190-201: the (uuid, tw) pairs of the lines, in document order.
RECURSIVE RawTaskInfo(_, _)
RawTaskInfo(buf, n) ==
  IF n = 0 THEN <<>>
  ELSE LET line == buf[n] IN
       IF line.kind = "task" /\ line.uuid # None
         THEN Append(RawTaskInfo(buf, n - 1), <<line.uuid, Resolve(line.source).tw>>)
         ELSE RawTaskInfo(buf, n - 1)

\* Line 195 raises for the first task line whose source is not configured,
\* whether or not the line has a uuid.
UnknownSource(buf) ==
  \E n \in 1..Len(buf) :
    buf[n].kind = "task" /\ Resolve(buf[n].source).err # "ok"

\* Line 205: the uuids of one warrior, a list with repetitions.
UuidList(raw, tw) ==
  LET mine == SelectSeq(raw, LAMBDA pair : pair[2] = tw) IN
  [n \in 1..Len(mine) |-> mine[n][1]]

\* The number of queries one warrior is sent.
Queries_per_uuid(uuids) == Len(uuids)

\* Lines 208-217: no query when the list is empty (line 209 continues);
\* otherwise a single lazy TaskQuerySet is built by the filter calls of
\* lines 212-214 and executed once, by the for of line 217.
Queries(uuids) == IF uuids = <<>> THEN 0 ELSE 1

\* The tasks a query returns when the uuid filters are conjoined.
Filter_conjunction(tw, uuids) ==
  {t \in tw_tasks[tw] : \A n \in 1..Len(uuids) : uuids[n] = t}

\* Lines 212-217: the tasks of warrior tw the query returns.  tasklib
\* turns filter(uuid=u) into a bare uuid in front of the filter (not a
\* uuid:u term), and taskwarrior reads a list of bare uuids as
\* alternatives: the tasks whose uuid is one of the list.
Filter(tw, uuids) ==
  {t \in tw_tasks[tw] : \E n \in 1..Len(uuids) : uuids[n] = t}

\* vwtask.ShortUUID(uuid, tw), the key of the task store: a value that is
\* equal to another exactly when uuid and tw are, and to no line number
\* __getitem__ is called with (it is positive, and `key in self` calls
\* __getitem__(0)).
ShortUUID(uuid, tw) == tw * (MaxUuid + 1) + uuid

\* The task store after lines 217-219 for the tasks of one warrior: each
\* goes in under ShortUUID(task['uuid'], tw); a Task is not None.
RECURSIVE StoreTasks(_, _, _)
StoreTasks(store, tw, tasks) ==
  IF tasks = {} THEN store
  ELSE LET t == CHOOSE x \in tasks : TRUE IN
       StoreTasks(NoNoneStore_setitem(store, ShortUUID(t, tw), t).store, tw,
                  tasks \ {t})

\* Lines 203-219 over all warriors.
RECURSIVE LoadAll(_, _, _)
LoadAll(store, raw, tws) ==
  IF tws = {} THEN store
  ELSE LET tw == CHOOSE x \in tws : TRUE IN
       LoadAll(IF Queries(UuidList(raw, tw)) = 0 THEN store
               ELSE StoreTasks(store, tw, Filter(tw, UuidList(raw, tw))),
               raw, tws \ {tw})

\* load_tasks(), lines 186-219.
LoadTasks ==
  /\ pc = "idle"
  /\ op' = Op("load_tasks", 0, 0)
  /\ lookups' = {}
  /\ NoGenerator
  /\ IF UnknownSource(buffer)
       THEN /\ err' = "TaskWikiException"
            /\ calls' = [tw \in Warriors |-> 0]
            /\ selected' = [tw \in Warriors |-> {}]
            /\ UNCHANGED task_store
       ELSE LET raw == RawTaskInfo(buffer, Len(buffer)) IN
            /\ err' = "ok"
            /\ calls' = [tw \in Warriors |-> Queries(UuidList(raw, tw))]
            /\ selected' = [tw \in Warriors |->
                              IF Queries(UuidList(raw, tw)) = 0 THEN {}
                              ELSE Filter(tw, UuidList(raw, tw))]
            /\ task_store' = LoadAll(task_store, raw, Warriors)
  /\ UNCHANGED <<buffer, vwtask_store, viewport_store, line_number,
                 add_dependencies, buffer_has_authority, tw_tasks,
                 old_authority, i, pc, edited>>

\* ------------------------------------------- the stores, called directly
\* cache.vwtask[key], as the callers of the cache write it.
VwtaskGet(key) ==
  /\ pc = "idle"
  /\ LET r == NoNoneStore_getitem(vwtask_store, key) IN
     /\ vwtask_store' = r.store
     /\ err' = r.err
  /\ op' = Op("vwtask_get", key, 0)
  /\ lookups' = {key}
  /\ NoGenerator
  /\ UNCHANGED <<buffer, task_store, viewport_store, line_number,
                 add_dependencies, buffer_has_authority, tw_tasks,
                 old_authority, i, pc, calls, selected, edited>>

\* cache.vwtask[key] = value
VwtaskSet(key, value) ==
  /\ pc = "idle"
  /\ LET r == NoNoneStore_setitem(vwtask_store, key, value) IN
     /\ vwtask_store' = r.store
     /\ err' = r.err
  /\ op' = Op("vwtask_set", key, value)
  /\ lookups' = IF value = None THEN {0} ELSE {}
  /\ NoGenerator
  /\ UNCHANGED <<buffer, task_store, viewport_store, line_number,
                 add_dependencies, buffer_has_authority, tw_tasks,
                 old_authority, i, pc, calls, selected, edited>>

\* cache.task[key] = value, key a ShortUUID
TaskSet(key, value) ==
  /\ pc = "idle"
  /\ LET r == NoNoneStore_setitem(task_store, key, value) IN
     /\ task_store' = r.store
     /\ err' = r.err
  /\ op' = Op("task_set", key, value)
  /\ lookups' = {}
  /\ NoGenerator
  /\ UNCHANGED <<buffer, vwtask_store, viewport_store, line_number,
                 add_dependencies, buffer_has_authority, tw_tasks,
                 old_authority, i, pc, calls, selected, edited>>

\* cache.task[key], key a ShortUUID: NoNoneStore.__getitem__ on the task
\* store.  TaskStore.get_method (lines 96-97), the only code that calls
\* TaskWarrior for a single task, is reached through line 69 alone.
TaskGet(key) ==
  /\ pc = "idle"
  /\ LET r == NoNoneStore_getitem(task_store, key) IN
     /\ task_store' = r.store
     /\ err' = r.err
  /\ op' = Op("task_get", key, 0)
  /\ lookups' = {}
  /\ NoGenerator
  /\ UNCHANGED <<buffer, vwtask_store, viewport_store, line_number,
                 add_dependencies, buffer_has_authority, tw_tasks,
                 old_authority, i, pc, calls, selected, edited>>

\* ----------------------------------------------------- initial states
\* What every specification starts with besides the document, the caches
\* and the wrappers: TaskCache.__init__ (lines 125-131) and no handler
\* called yet.
InitControl ==
  /\ buffer_has_authority = TRUE
  /\ pc = "idle"
  /\ old_authority = TRUE
  /\ i = 0
  /\ iterated_cache = EmptyStore
  /\ todo = {}
  /\ removed = 0
  /\ yielded = <<>>
  /\ op = Op("init", 0, 0)
  /\ err = "ok"
  /\ lookups = {}
  /\ calls = [tw \in Warriors |-> 0]
  /\ selected = [tw \in Warriors |-> {}]
  /\ edited = FALSE

\* The add_dependencies a set of wrappers can have: any sets of at most
\* MaxDeps wrappers.
DepChoices ==
  {d \in [Wrappers -> SUBSET Wrappers] :
     \A w \in Wrappers : Cardinality(d[w]) <= MaxDeps}

\* A position cache in which the wrapper keyed at k has line_number k; the
\* wrapper at key k is named k+1.
ConsistentStores(n) ==
  {[k \in S |-> k + 1] : S \in SUBSET (0..(n - 1))}

\* Save order: any consistent position cache over any add_dependencies.
InitSave ==
  /\ InitControl
  /\ buffer = [k \in 1..MaxW |-> TaskLine(0, 1)]
  /\ task_store = EmptyStore
  /\ viewport_store = EmptyStore
  /\ vwtask_store \in ConsistentStores(MaxW)
  /\ line_number = [w \in Wrappers |-> w - 1]
  /\ add_dependencies \in DepChoices
  /\ tw_tasks = [tw \in Warriors |-> {}]

NextSave == SaveBegin \/ SaveStep \/ SaveWhile

SpecSave == InitSave /\ [][NextSave]_vars

\* The positions the handlers are called with: every line of a full
\* document, so beyond the end of a shorter one.
Positions == 0..(MaxLen - 1)

\* The lines the editing specifications insert.
EditLines == {Note, TaskLine(0, 1), TaskLine(0, 2)}

\* The position caches a document can have: wrappers for some of its task
\* lines, each with line_number equal to its key.
CachesOf(buf) ==
  {st \in ConsistentStores(MaxW) :
     \A k \in DOMAIN st : InRange(buf, k) /\ LineAt(buf, k).kind = "task"}

\* Editing: any document with any such cache.
InitEdit ==
  /\ InitControl
  /\ buffer \in Docs(EditLines, MaxLen)
  /\ task_store = EmptyStore
  /\ viewport_store = EmptyStore
  /\ vwtask_store \in CachesOf(buffer)
  /\ line_number = [w \in Wrappers |-> w - 1]
  /\ add_dependencies = [w \in Wrappers |-> {}]
  /\ tw_tasks = [tw \in Warriors |-> {}]

NextEdit ==
  \/ \E line \in EditLines, position \in Positions : InsertLine(line, position)
  \/ \E position \in Positions : RemoveLine(position)
  \/ \E position1, position2 \in Positions : SwapLines(position1, position2)

SpecEdit == InitEdit /\ [][NextEdit]_vars

\* The positions a caller can pass: those of Positions, the line count of
\* a full document, and a negative one.
CallPositions == (-1)..MaxLen

\* Editing with any position: the documents and caches of InitEdit, the
\* three handlers called with positions inside and outside the document.
NextRange ==
  \/ \E line \in EditLines, position \in CallPositions :
       InsertLine(line, position)
  \/ \E position \in CallPositions : RemoveLine(position)
  \/ \E position1, position2 \in CallPositions :
       SwapLines(position1, position2)

SpecRange == InitEdit /\ [][NextRange]_vars

\* The lines of the documents with viewports.
ViewLines == {Note, View}

\* Viewports under editing: a freshly built cache over any document of
\* notes and viewport definitions, load_viewports and the three editing
\* handlers.
InitView ==
  /\ InitControl
  /\ buffer \in Docs(ViewLines, MaxLen)
  /\ task_store = EmptyStore
  /\ viewport_store = EmptyStore
  /\ vwtask_store = EmptyStore
  /\ line_number = [w \in Wrappers |-> w - 1]
  /\ add_dependencies = [w \in Wrappers |-> {}]
  /\ tw_tasks = [tw \in Warriors |-> {}]

NextView ==
  \/ LoadViewports
  \/ \E line \in ViewLines, position \in Positions : InsertLine(line, position)
  \/ \E position \in Positions : RemoveLine(position)
  \/ \E position1, position2 \in Positions : SwapLines(position1, position2)

SpecView == InitView /\ [][NextView]_vars

\* The add_dependencies with at most one dependency in all.
EdgeChoices ==
  {d \in DepChoices :
     /\ Cardinality({w \in Wrappers : d[w] # {}}) <= 1
     /\ \A w \in Wrappers : Cardinality(d[w]) <= 1 /\ w \notin d[w]}

\* Editing, then saving: documents of notes and one kind of task line, a
\* cache as above, and at most one wrapper that depends on another.
InitEditSave ==
  /\ InitControl
  /\ buffer \in Docs({Note, TaskLine(0, 1)}, MaxLen)
  /\ task_store = EmptyStore
  /\ viewport_store = EmptyStore
  /\ vwtask_store \in CachesOf(buffer)
  /\ line_number = [w \in Wrappers |-> w - 1]
  /\ add_dependencies \in EdgeChoices
  /\ tw_tasks = [tw \in Warriors |-> {}]

NextEditSave ==
  \/ \E line \in {Note, TaskLine(0, 1)}, position \in Positions :
       InsertLine(line, position)
  \/ \E position \in Positions : RemoveLine(position)
  \/ \E position1, position2 \in Positions : SwapLines(position1, position2)
  \/ SaveBegin
  \/ SaveStep
  \/ SaveWhile

SpecEditSave == InitEditSave /\ [][NextEditSave]_vars

\* What the warriors hold: uuid MaxUuid is in no warrior, and warrior tw
\* lacks uuid tw as well.
TwData == [tw \in Warriors |-> {u \in Uuids : u # MaxUuid /\ u # tw}]

\* Batch loading: a freshly built cache over any document.
InitLoad ==
  /\ InitControl
  /\ buffer \in Docs({Note} \cup TaskLines, MaxLen)
  /\ task_store = EmptyStore
  /\ viewport_store = EmptyStore
  /\ vwtask_store = EmptyStore
  /\ line_number = [w \in Wrappers |-> w - 1]
  /\ add_dependencies = [w \in Wrappers |-> {}]
  /\ tw_tasks = TwData

NextLoad == LoadTasks \/ Reset

SpecLoad == InitLoad /\ [][NextLoad]_vars

\* The stores called directly on a freshly built cache.
InitStore ==
  /\ InitControl
  /\ buffer = <<Note, TaskLine(0, 1)>>
  /\ task_store = EmptyStore
  /\ viewport_store = EmptyStore
  /\ vwtask_store = EmptyStore
  /\ line_number = [w \in Wrappers |-> w - 1]
  /\ add_dependencies = [w \in Wrappers |-> {}]
  /\ tw_tasks = TwData

NextStore ==
  \/ \E key \in Positions : VwtaskGet(key)
  \/ \E key \in Positions, value \in {None} \cup Wrappers :
       VwtaskSet(key, value)
  \/ \E u \in Uuids, tw \in Warriors, value \in {None, 1} :
       TaskSet(ShortUUID(u, tw), value * u)
  \/ \E u \in Uuids, tw \in Warriors : TaskGet(ShortUUID(u, tw))
  \/ Reset

SpecStore == InitStore /\ [][NextStore]_vars

\* The cache as a whole: every handler of TaskCache, from the state
\* __init__ leaves over any document, with any position cache the callers
\* of the stores may have filled in.
MainLines == {View, TaskLine(0, 1)}

Init ==
  /\ InitControl
  /\ buffer \in Docs(MainLines, MaxLen)
  /\ task_store = EmptyStore
  /\ viewport_store = EmptyStore
  /\ vwtask_store \in CachesOf(buffer)
  /\ line_number = [w \in Wrappers |-> w - 1]
  /\ add_dependencies = [w \in Wrappers |-> {}]
  /\ tw_tasks = TwData

Next ==
  \/ Reset
  \/ \E authority \in BOOLEAN : LoadVwtasksBegin(authority)
  \/ LoadVwtasksLookup
  \/ LoadVwtasksEnd
  \/ LoadViewports
  \/ LoadTasks
  \/ SaveBegin
  \/ SaveStep
  \/ SaveWhile
  \/ \E line \in MainLines, position \in Positions : InsertLine(line, position)
  \/ \E position \in Positions : RemoveLine(position)
  \/ \E position1, position2 \in Positions : SwapLines(position1, position2)
  \/ RebuildVimwikitaskCache

Spec == Init /\ [][Next]_vars

\* ================================================================ claims
\* The wrappers the position cache holds.
Materialized == {vwtask_store[k] : k \in DOMAIN vwtask_store}

\* The wrappers reachable from w by one or more add_dependencies steps
\* that stay inside the set M.
RECURSIVE DepClosure(_, _, _)
DepClosure(M, frontier, seen) ==
  LET next == (UNION {add_dependencies[w] : w \in frontier}) \cap M IN
  IF next \subseteq seen THEN seen
  ELSE DepClosure(M, next \ seen, seen \cup next)

Cyclic(M) == \E w \in M : w \in DepClosure(M, {w}, {})

\* The position of wrapper w in the yielded sequence, 0 when not yielded.
YieldIndex(w) ==
  IF \E n \in 1..Len(yielded) : yielded[n] = w
    THEN CHOOSE n \in 1..Len(yielded) : yielded[n] = w
    ELSE 0

\* C2: when add_dependencies is acyclic over the materialized wrappers, a
\* wrapper is yielded by vimwikitask_dependency_order only after every
\* materialized wrapper of its add_dependencies has been yielded.
C2_DependencyOrder ==
  (op.name = "save_tasks" /\ ~Cyclic(Materialized)) =>
    \A n \in 1..Len(yielded) :
      \A a \in add_dependencies[yielded[n]] \cap Materialized :
        \E m \in 1..(n - 1) : yielded[m] = a

\* A finished save of an acyclic set in which a wrapper with two
\* dependencies sits at a smaller key than both and was yielded after both.
C2_Witness ==
  /\ op.name = "save_tasks" /\ pc = "idle" /\ err = "ok"
  /\ ~Cyclic(Materialized)
  /\ \E b \in Materialized :
       /\ Cardinality(add_dependencies[b] \cap Materialized) = 2
       /\ \A a \in add_dependencies[b] :
            /\ line_number[a] > line_number[b]
            /\ YieldIndex(a) > 0 /\ YieldIndex(a) < YieldIndex(b)

\* C3: on a cyclic add_dependencies relation the generator never ends a
\* pass of the for loop that deleted nothing with a non-empty working set,
\* which is the state from which the while loop starts the same pass again.
C3_NoStalledPass ==
  (op.name = "save_tasks" /\ Cyclic(Materialized)) =>
    ~(pc = "save_tasks" /\ todo = {} /\ removed = 0
      /\ DOMAIN iterated_cache # {})

\* C1: every wrapper the position cache holds has line_number equal to
\* its key, and no two cached wrappers share a line_number, after every
\* insert_line, remove_line and swap_lines of any sequence that starts
\* from a cache of which this is true.
C1_LineNumberIsKey ==
  /\ \A k \in DOMAIN vwtask_store : line_number[vwtask_store[k]] = k
  /\ \A k1, k2 \in DOMAIN vwtask_store :
       k1 # k2 => line_number[vwtask_store[k1]] # line_number[vwtask_store[k2]]

\* An insert_line at or before the key of a cached wrapper has been made
\* while the cache holds two wrappers.
C1_Witness ==
  /\ op.name = "insert_line" /\ err # "IndexError"
  /\ Cardinality(DOMAIN vwtask_store) >= 2
  /\ \E k \in DOMAIN vwtask_store : op.a <= k

C10_SwapFrame ==
  [][(op'.name = "swap_lines" /\ InRange(buffer, op'.a) /\ InRange(buffer, op'.b)) =>
       /\ Len(buffer') = Len(buffer)
       /\ \A k \in 0..(Len(buffer) - 1) :
            k \notin {op'.a, op'.b} => LineAt(buffer', k) = LineAt(buffer, k)
       /\ \A k \in (DOMAIN vwtask_store \cup DOMAIN vwtask_store') \ {op'.a, op'.b} :
            /\ k \in DOMAIN vwtask_store /\ k \in DOMAIN vwtask_store'
            /\ vwtask_store'[k] = vwtask_store[k]
            /\ line_number'[vwtask_store[k]] = line_number[vwtask_store[k]]
       /\ lookups' \subseteq {op'.a, op'.b}]_vars

\* A three-line document after a swap of two different lines, with a
\* wrapper cached at the third position.
C10_Witness ==
  /\ op.name = "swap_lines" /\ err # "ValueError"
  /\ Len(buffer) = 3
  /\ LineAt(buffer, op.a) # LineAt(buffer, op.b)
  /\ \E k \in DOMAIN vwtask_store : k \notin {op.a, op.b}

\* The uuids the task lines of the document reference for warrior tw.
Referenced(tw) ==
  {buffer[n].uuid : n \in {m \in 1..Len(buffer) :
                             /\ buffer[m].kind = "task"
                             /\ buffer[m].uuid # None
                             /\ buffer[m].source \in Warriors
                             /\ buffer[m].source = tw}}

\* C4: one load_tasks sends each warrior at most one query, whatever the
\* number of lines and of uuids, and none to a warrior whose tasks no line
\* references.
C4_OneQueryPerWarrior ==
  op.name = "load_tasks" =>
    \A tw \in Warriors :
      /\ calls[tw] <= 1
      /\ Referenced(tw) = {} => calls[tw] = 0

\* A document of three lines that reference three uuids of the default
\* warrior: one query went to it and none to the other warriors.
C4_Witness ==
  /\ op.name = "load_tasks" /\ err = "ok"
  /\ Len(buffer) = 3
  /\ Cardinality(Referenced(0)) = 3
  /\ calls[0] = 1
  /\ \A tw \in Warriors \ {0} : calls[tw] = 0

C7_SetNoneDeletes ==
  /\ (op.name = "vwtask_set" /\ op.b = None) =>
       (err = "ok" /\ op.a \notin DOMAIN vwtask_store)
  /\ (op.name = "task_set" /\ op.b = None) =>
       (err = "ok" /\ op.a \notin DOMAIN task_store)
  /\ \A k \in DOMAIN vwtask_store : vwtask_store[k] # None
  /\ \A k \in DOMAIN task_store : task_store[k] # None

\* C8: when load_vwtasks has ended with an error, buffer_has_authority is
\* what it was when load_vwtasks was called.
C8_FlagRestoredOnError ==
  (op.name = "load_vwtasks" /\ pc = "idle" /\ err # "ok") =>
    Flag(buffer_has_authority) = op.b

\* C9: during the lookups of load_vwtasks the flag is the argument of the
\* call, and between handlers it is the value __init__ gave it.
C9_FlagBetweenHandlers ==
  /\ pc = "load_vwtasks" => Flag(buffer_has_authority) = op.a
  /\ pc = "idle" => buffer_has_authority = TRUE

\* C11: an insert_line step at a position of 0..len(buffer) leaves the
\* document one line longer, with the lines before the position where they
\* were and the lines from the position on one index higher; a wrapper
\* keyed at k >= position is afterwards keyed at k+1 with line_number k+1,
\* a wrapper keyed at k < position stays at k with line_number k; the
\* position cache holds as many wrappers as before and none at the position.
C11_InsertShifts ==
  [][(op'.name = "insert_line" /\ op'.a \in 0..Len(buffer)) =>
       /\ Len(buffer') = Len(buffer) + 1
       /\ \A k \in 0..(Len(buffer) - 1) :
            IF k >= op'.a THEN LineAt(buffer', k + 1) = LineAt(buffer, k)
            ELSE LineAt(buffer', k) = LineAt(buffer, k)
       /\ \A k \in DOMAIN vwtask_store :
            LET new == IF k >= op'.a THEN k + 1 ELSE k IN
            /\ new \in DOMAIN vwtask_store'
            /\ vwtask_store'[new] = vwtask_store[k]
            /\ line_number'[vwtask_store[k]] = new
       /\ Cardinality(DOMAIN vwtask_store') = Cardinality(DOMAIN vwtask_store)
       /\ op'.a \notin DOMAIN vwtask_store']_vars

\* C12: a remove_line step at a position of the document leaves the
\* document without that line; the position cache no longer holds the
\* wrapper that was keyed at the position, a wrapper keyed at k > position
\* is afterwards keyed at k-1 with line_number k-1, and a wrapper keyed at
\* k < position stays at k, whether or not the position had a wrapper.
C12_RemoveShifts ==
  [][(op'.name = "remove_line" /\ InRange(buffer, op'.a)) =>
       /\ buffer' = BufferDelete(buffer, op'.a)
       /\ \A k \in DOMAIN vwtask_store :
            IF k = op'.a
              THEN vwtask_store[k] \notin
                     {vwtask_store'[j] : j \in DOMAIN vwtask_store'}
              ELSE LET new == IF k > op'.a THEN k - 1 ELSE k IN
                   /\ new \in DOMAIN vwtask_store'
                   /\ vwtask_store'[new] = vwtask_store[k]
                   /\ line_number'[vwtask_store[k]] = new]_vars

\* C13: an insert_line, remove_line or swap_lines step that ends with an
\* exception leaves the document as it was.
C13_FailedEditKeepsDocument ==
  [][(op'.name \in {"insert_line", "remove_line", "swap_lines"}
      /\ err' # "ok") => buffer' = buffer]_vars

\* A position that is no line of the document.
OutOfRange(buf, p) == p < 0 \/ p >= Len(buf)

\* C14: an insert_line, remove_line or swap_lines step called with a
\* position that is negative or at or beyond the line count (for
\* swap_lines, either position) ends with a positional exception
\* (IndexError or ValueError) and changes neither the document nor the
\* position cache nor a line_number.
C14_OutOfRangeRejected ==
  [][(/\ op'.name \in {"insert_line", "remove_line", "swap_lines"}
      /\ \/ OutOfRange(buffer, op'.a)
         \/ (op'.name = "swap_lines" /\ OutOfRange(buffer, op'.b))) =>
       /\ err' \in {"IndexError", "ValueError"}
       /\ buffer' = buffer
       /\ vwtask_store' = vwtask_store
       /\ line_number' = line_number]_vars

\* C15: after load_viewports and any insert_line, remove_line and
\* swap_lines calls, every key of the viewport store is a position of the
\* document whose line defines a viewport (a consequence of each ViewPort
\* being keyed by the current position of its defining line).
C15_ViewportsFollowLines ==
  \A k \in DOMAIN viewport_store :
    InRange(buffer, k) /\ ViewPort_from_line(buffer, k) # None

\* The wrappers yielded so far.
Yielded == {yielded[n] : n \in 1..Len(yielded)}

\* C16: save_tasks over a position cache whose add_dependencies are acyclic
\* yields no wrapper twice, at every moment holds each cached wrapper
\* either as yielded or in its working set, never ends a pass that yielded
\* nothing while wrappers remain, and when it has returned it has yielded
\* every wrapper the position cache held.
C16_EveryWrapperOnce ==
  (op.name = "save_tasks" /\ ~Cyclic(Materialized)) =>
    /\ \A n, m \in 1..Len(yielded) : yielded[n] = yielded[m] => n = m
    /\ Yielded \cup {iterated_cache[k] : k \in DOMAIN iterated_cache}
         = Materialized
    /\ Yielded \cap {iterated_cache[k] : k \in DOMAIN iterated_cache} = {}
    /\ ~(pc = "save_tasks" /\ todo = {} /\ removed = 0
         /\ DOMAIN iterated_cache # {})
    /\ (pc = "idle" /\ err = "ok") => Yielded = Materialized

\* A finished save of three cached wrappers forming a chain of
\* dependencies: all three were yielded.
C16_Witness ==
  /\ op.name = "save_tasks" /\ pc = "idle" /\ err = "ok"
  /\ ~Cyclic(Materialized)
  /\ Cardinality(Materialized) >= 3
  /\ Len(yielded) = Cardinality(Materialized)
  /\ \E a, b, c \in Materialized :
       /\ a \in add_dependencies[b] /\ b \in add_dependencies[c]
       /\ YieldIndex(a) < YieldIndex(b) /\ YieldIndex(b) < YieldIndex(c)

\* C17: a swap_lines step with both positions in the document exchanges
\* the two document lines, and a wrapper that was keyed at one of the two
\* positions is afterwards keyed at the other with line_number equal to
\* that key, whether both, one or none of the positions had a wrapper.
C17_SwapExchanges ==
  [][(op'.name = "swap_lines" /\ InRange(buffer, op'.a) /\ InRange(buffer, op'.b)) =>
       /\ LineAt(buffer', op'.a) = LineAt(buffer, op'.b)
       /\ LineAt(buffer', op'.b) = LineAt(buffer, op'.a)
       /\ \A pair \in {<<op'.a, op'.b>>, <<op'.b, op'.a>>} :
            pair[1] \in DOMAIN vwtask_store =>
              /\ pair[2] \in DOMAIN vwtask_store'
              /\ vwtask_store'[pair[2]] = vwtask_store[pair[1]]
              /\ line_number'[vwtask_store[pair[1]]] = pair[2]]_vars

\* C18: every key of the position cache is a position of the document
\* that holds a task line (a consequence of each cached wrapper having been
\* parsed from the line now at its key: VimwikiTask.from_line returns a
\* wrapper for task lines only).
C18_WrappersOnTaskLines ==
  \A k \in DOMAIN vwtask_store :
    InRange(buffer, k) /\ LineAt(buffer, k).kind = "task"

\* C19: cache.vwtask[position] for a line of the document that is not a
\* task line returns (None), so that the outcome can be kept for the
\* next lookup of the position.
C19_NonTaskLookupReturnsNone ==
  (/\ op.name = "vwtask_get"
   /\ InRange(buffer, op.a)
   /\ LineAt(buffer, op.a).kind # "task") => err = "ok"

\* C20: cache.task[key] for a key the task store does not hold returns
\* (the absent outcome), and sends no warrior a query.
C20_MissReturnsAbsent ==
  (op.name = "task_get" /\ op.a \notin DOMAIN task_store) =>
    (err = "ok" /\ \A tw \in Warriors : calls[tw] = 0)

====
